---- MODULE Spec2Model ----
(***************************************************************************)
(* EcoHero+ backend: the wallet ledger kept in the document store and the  *)
(* handlers of main.py that read and append to it (seed_challenges,        *)
(* create_user, submit_challenge, get_wallet, redeem_points).              *)
(*                                                                         *)
(* The handlers are plain `def` endpoints: FastAPI runs each request on a  *)
(* worker thread, so the store reads and the insert of one request can     *)
(* interleave with those of another.  redeem_points, the one handler that  *)
(* reads the store and then writes what it decided from the read, is       *)
(* modelled in two steps, its get_wallet call with the checks and its      *)
(* create_document call; a request between the two is held in reqs.  Spec  *)
(* lets requests interleave, SpecSeq runs one at a time.                   *)
(***************************************************************************)
EXTENDS Integers, Sequences, FiniteSets, Bags, TLC

\* ---------------------------------------------------------------- bounds
MaxUsers == 2        \* user documents created
MaxTreeSubs == 12    \* "Plant a tree" submissions of the first user
MaxOtherSubs == 1    \* submissions other than those
MaxReqs == 2         \* redemptions checked and not yet recorded, at once

\* ------------------------------------------------------ program constants
AdultAge == 18                \* payload.age < 18
MinAge == 0                   \* Field(..., ge=0, ...)
MaxAge == 120                 \* Field(..., le=120, ...)
PointsPerDollar == 1000       \* balance / 1000.0, payload.points / 1000.0
MinWithdrawalDollars == 10    \* dollars >= 10.0, dollars < 10.0

None == "None"
ParentEmail == "parent@example.com"

\* An id is an ObjectId string.  Documents of `user` and `challenge` get the
\* ids 1, 2, ... in insertion order; BadId is a string ObjectId() rejects.
BadId == 0
IsObjectId(id) == id # BadId

\* ---------------------------------------------------------------- inputs
CreateUserInputs ==
    { [age |-> AdultAge - 1, parent_email |-> None],
      [age |-> AdultAge - 1, parent_email |-> ParentEmail],
      [age |-> AdultAge,     parent_email |-> None],
      [age |-> MaxAge + 1,   parent_email |-> None] }
UserIdInputs == 0..MaxUsers
PointsInputs == {0, 5000, 10000}
ForUnder18Inputs == BOOLEAN

VARIABLES
    dbConfigured,        \* database.db is not None
    user,                \* db["user"]: sequence of documents, _id = position
    challenge,           \* db["challenge"]: sequence of documents, _id = position
    submission,          \* db["submission"]: bag of documents
    wallettransaction,   \* db["wallettransaction"]: bag of documents
    reqs,                \* bag of redeem_points payloads checked and not yet recorded
    awarded,             \* per user id, total of points_awarded returned by /submit
    resp                 \* what the last step returned to its caller, if anything

store == <<user, challenge, submission, wallettransaction>>
vars == <<dbConfigured, user, challenge, submission, wallettransaction, reqs, awarded, resp>>

\* ------------------------------------------------------------- the store
\* database.create_document: insert one document into the collection.
CreateDocument(coll, doc) == coll (+) SetToBag({doc})
CreateDocumentSeq(coll, doc) == Append(coll, doc)

RECURSIVE SumBag(_)
\* sum(... for d in cursor) over a bag of numbers: every copy counts.
SumBag(B) ==
    IF DOMAIN B = {} THEN 0
    ELSE LET n == CHOOSE x \in DOMAIN B : TRUE
             rest == [y \in DOMAIN B \ {n} |-> B[y]]
         IN  B[n] * n + SumBag(rest)

\* The bag of the values val(d) of the documents d of a bag of documents.
RECURSIVE Project(_, _)
Project(B, field) ==
    IF DOMAIN B = {} THEN EmptyBag
    ELSE LET d == CHOOSE x \in DOMAIN B : TRUE
             rest == [y \in DOMAIN B \ {d} |-> B[y]]
         IN  [v \in {d[field]} |-> B[d]] (+) Project(rest, field)

\* db[coll].find(query)
Find(coll, query) ==
    LET hit == {d \in DOMAIN coll : \A f \in DOMAIN query : d[f] = query[f]}
    IN  [d \in hit |-> coll[d]]

\* db[coll].find_one({"_id": ObjectId(id)}) returns a document (not None)
Found(coll, id) == id \in 1..Len(coll)

\* ---------------------------------------------------------------- seeding
SeedDefaults ==
    << [audience |-> "kid",   points |-> 100,  is_active |-> TRUE],
       [audience |-> "kid",   points |-> 100,  is_active |-> TRUE],
       [audience |-> "kid",   points |-> 50,   is_active |-> TRUE],
       [audience |-> "adult", points |-> 1000, is_active |-> TRUE],
       [audience |-> "adult", points |-> 500,  is_active |-> TRUE],
       [audience |-> "adult", points |-> 300,  is_active |-> TRUE] >>
TreeChallenge == 4
SwitchOffLights == 3
\* a malformed id, the 50 and the 1000 point challenge, an id of no challenge
ChallengeIdInputs == {BadId, SwitchOffLights, TreeChallenge, Len(SeedDefaults) + 1}

\* ------------------------------------------------------------- responses
NoWallet == -1
Response(op, status, detail) ==
    [op |-> op, status |-> status, detail |-> detail, user_id |-> BadId,
     req_points |-> 0, points |-> NoWallet, can_withdraw |-> FALSE]
NotConfigured(op) == Response(op, 500, "Database not configured")

Quiet == reqs = EmptyBag
NoResponse == Response("none", 0, "")

Init ==
    /\ dbConfigured \in BOOLEAN
    /\ user = << >>
    /\ challenge = << >>
    /\ submission = EmptyBag
    /\ wallettransaction = EmptyBag
    /\ reqs = EmptyBag
    /\ awarded = [u \in 1..MaxUsers |-> 0]
    /\ resp = NoResponse

\* POST /seed
SeedChallenges ==
    /\ UNCHANGED <<dbConfigured, user, submission, wallettransaction, reqs, awarded>>
    /\ IF ~dbConfigured
       THEN /\ resp' = NotConfigured("seed")
            /\ UNCHANGED challenge
       ELSE IF Len(challenge) > 0
       THEN /\ resp' = Response("seed", 200, "not seeded")
            /\ UNCHANGED challenge
       ELSE /\ challenge' = challenge \o SeedDefaults
            /\ resp' = Response("seed", 200, "seeded")

\* POST /users
UnderAgeOffByOne(age, parent_email) ==
    age < AdultAge - 1 /\ parent_email = None
UnderAgeWithoutParent(age, parent_email) ==
    age < AdultAge /\ parent_email = None

CreateUser(payload) ==
    /\ UNCHANGED <<dbConfigured, challenge, submission, wallettransaction, reqs, awarded>>
    /\ IF payload.age < MinAge \/ payload.age > MaxAge
       THEN /\ resp' = Response("create_user", 422, "validation error")
            /\ UNCHANGED user
       ELSE IF ~dbConfigured
       THEN /\ resp' = NotConfigured("create_user")
            /\ UNCHANGED user
       ELSE IF UnderAgeWithoutParent(payload.age, payload.parent_email)
       THEN /\ resp' = Response("create_user", 400,
                                "Parent email required for under-18 users")
            /\ UNCHANGED user
       ELSE /\ Len(user) < MaxUsers
            /\ user' = CreateDocumentSeq(user, payload)
            /\ resp' = [Response("create_user", 200, "") EXCEPT
                           !.user_id = Len(user) + 1]

\* POST /submit
PointsOf(c) == challenge[c].points          \* challenge.get("points", 0)

NewSubmission(u, c) ==
    [user_id |-> u, challenge_id |-> c, points_awarded |-> PointsOf(c),
     status |-> "approved"]

\* Exploration bounds on db["submission"]: the first user's "Plant a tree"
\* submissions, which carry a balance up to the $10 minimum, and all others.
TreeSubmission == [user_id |-> 1, challenge_id |-> TreeChallenge,
                   points_awarded |-> SeedDefaults[TreeChallenge].points,
                   status |-> "approved"]
TreeSubs == CopiesIn(TreeSubmission, submission)
OtherSubs == BagCardinality(submission) - TreeSubs
RoomFor(doc) ==
    IF doc = TreeSubmission THEN TreeSubs < MaxTreeSubs ELSE OtherSubs < MaxOtherSubs

SubmitChallenge(u, c) ==
    /\ UNCHANGED <<dbConfigured, user, challenge, wallettransaction, reqs>>
    /\ IF ~dbConfigured
       THEN /\ resp' = NotConfigured("submit")
            /\ UNCHANGED <<submission, awarded>>
       ELSE IF ~IsObjectId(u) \/ ~IsObjectId(c)
       THEN /\ resp' = Response("submit", 400, "Invalid ids provided")
            /\ UNCHANGED <<submission, awarded>>
       ELSE IF ~Found(user, u) \/ ~Found(challenge, c)
       THEN /\ resp' = Response("submit", 404, "User or challenge not found")
            /\ UNCHANGED <<submission, awarded>>
       ELSE /\ RoomFor(NewSubmission(u, c))
            /\ submission' = CreateDocument(submission, NewSubmission(u, c))
            /\ awarded' = [awarded EXCEPT ![u] = @ + PointsOf(c)]
            /\ resp' = [Response("submit", 200, "") EXCEPT
                           !.user_id = u, !.points = PointsOf(c)]

\* GET /wallet/{user_id}
ApprovedOfAnyUser(sub, u) ==
    Find(sub, [status |-> "approved"])
ApprovedOf(sub, u) ==
    Find(sub, [user_id |-> u, status |-> "approved"])
Earned(sub, u) == SumBag(Project(ApprovedOf(sub, u), "points_awarded"))

RedeemsOf(txn, u) ==
    Find(txn, [user_id |-> u, type |-> "redeem"])
Redeemed(txn, u) == SumBag(Project(RedeemsOf(txn, u), "points"))

Max(a, b) == IF a >= b THEN a ELSE b
BalanceUnclamped(earned, redeemed) == earned - redeemed
BalanceEarnedOnly(earned, redeemed) == Max(0, earned)
Balance(earned, redeemed) == Max(0, earned - redeemed)

\* dollars = points / 1000.0 compared with 10.0: the quotient of an int by
\* 1000.0 is below 10.0 exactly when the int is below 10 * 1000.
MinWithdrawalPoints == MinWithdrawalDollars * PointsPerDollar
DollarsAtLeastMin(points) == points >= MinWithdrawalPoints

WalletPoints(sub, txn, u) == Balance(Earned(sub, u), Redeemed(txn, u))

GetWallet(u) ==
    /\ UNCHANGED <<dbConfigured, user, challenge, submission, wallettransaction,
                   reqs, awarded>>
    /\ LET echo(x) == [x EXCEPT !.user_id = u]
           balance == WalletPoints(submission, wallettransaction, u) IN
       IF ~dbConfigured
       THEN resp' = echo(NotConfigured("wallet"))
       ELSE IF ~IsObjectId(u)
       THEN resp' = echo(Response("wallet", 400, "Invalid user id"))
       ELSE resp' = [echo(Response("wallet", 200, "")) EXCEPT
                        !.points = balance,
                        !.can_withdraw = DollarsAtLeastMin(balance)]

\* POST /redeem up to the insert: the get_wallet call and the two checks
InvalidAmountStrict(k, balance) == k <= 0 \/ k >= balance
InvalidAmountNonPositiveOnly(k, balance) == k <= 0
InvalidAmount(k, balance) == k <= 0 \/ k > balance

BelowMinimumOfHundredPerDollar(k) == k < MinWithdrawalDollars * 100
BelowMinimum(k) == ~DollarsAtLeastMin(k)

MinimumError == "Minimum withdrawal is $10"
InvalidAmountErrorCopied == MinimumError
InvalidAmountError == "Invalid points amount"

\* The HTTPException redeem_points raises on a computed balance, if any.
NoError == <<0, "checked">>
RedeemError(k, balance) ==
    IF InvalidAmount(k, balance) THEN <<400, InvalidAmountError>>
    ELSE IF BelowMinimum(k) THEN <<400, MinimumError>>
    ELSE NoError

Pending(u, k, f) == [user_id |-> u, points |-> k, for_under18 |-> f]

\* POST /redeem: record the redemption
NewTransaction(payload) ==
    [user_id |-> payload.user_id, type |-> "redeem", points |-> payload.points,
     note |-> IF payload.for_under18 THEN "Parent-approved withdrawal" ELSE "Withdrawal"]

\* redeem_points with the insert moved above the minimum-withdrawal check
RedeemCheckInsertFirst(u, k, f) ==
    /\ UNCHANGED <<dbConfigured, user, challenge, submission, awarded>>
    /\ LET echo(x) == [x EXCEPT !.user_id = u, !.req_points = k]
           balance == WalletPoints(submission, wallettransaction, u)
           err == RedeemError(k, balance) IN
       IF ~dbConfigured
       THEN /\ resp' = echo(NotConfigured("redeem"))
            /\ UNCHANGED <<reqs, wallettransaction>>
       ELSE IF ~IsObjectId(u)
       THEN /\ resp' = echo(Response("redeem", 400, "Invalid user id"))
            /\ UNCHANGED <<reqs, wallettransaction>>
       ELSE IF InvalidAmount(k, balance)
       THEN /\ resp' = [echo(Response("redeem", err[1], err[2])) EXCEPT !.points = balance]
            /\ UNCHANGED <<reqs, wallettransaction>>
       ELSE /\ wallettransaction' =
                   CreateDocument(wallettransaction, NewTransaction(Pending(u, k, f)))
            /\ resp' = [echo(Response("redeem", IF BelowMinimum(k) THEN 400 ELSE 200,
                                      IF BelowMinimum(k) THEN MinimumError
                                      ELSE "pending_payout"))
                           EXCEPT !.points = balance]
            /\ UNCHANGED reqs

RedeemCheck(u, k, f) ==
    /\ UNCHANGED <<dbConfigured, user, challenge, submission, wallettransaction, awarded>>
    /\ LET echo(x) == [x EXCEPT !.user_id = u, !.req_points = k]
           balance == WalletPoints(submission, wallettransaction, u)
           err == RedeemError(k, balance) IN
       IF ~dbConfigured
       THEN /\ resp' = echo(NotConfigured("redeem"))
            /\ UNCHANGED reqs
       ELSE IF ~IsObjectId(u)
       THEN /\ resp' = echo(Response("redeem", 400, "Invalid user id"))
            /\ UNCHANGED reqs
       ELSE IF err # NoError
       THEN /\ resp' = [echo(Response("redeem", err[1], err[2])) EXCEPT !.points = balance]
            /\ UNCHANGED reqs
       ELSE /\ BagCardinality(reqs) < MaxReqs
            /\ reqs' = reqs (+) SetToBag({Pending(u, k, f)})
            \* no HTTP response yet: resp holds the wallet the checks passed on
            /\ resp' = [echo(Response("redeem", err[1], err[2])) EXCEPT !.points = balance]

RedeemAppend(payload) ==
    /\ BagIn(payload, reqs)
    /\ UNCHANGED <<dbConfigured, user, challenge, submission, awarded>>
    /\ wallettransaction' = CreateDocument(wallettransaction, NewTransaction(payload))
    /\ reqs' = reqs (-) SetToBag({payload})
    /\ resp' = [Response("redeem", 200, "pending_payout") EXCEPT
                   !.user_id = payload.user_id,
                   !.req_points = payload.points]

\* ------------------------------------------------------- specifications
\* One request at a time: a request arrives only when none is in flight, and
\* the one in flight runs to its response.
NextSeq ==
    \/ Quiet /\ SeedChallenges
    \/ Quiet /\ \E payload \in CreateUserInputs : CreateUser(payload)
    \/ Quiet /\ \E u \in UserIdInputs, c \in ChallengeIdInputs : SubmitChallenge(u, c)
    \/ Quiet /\ \E u \in UserIdInputs : GetWallet(u)
    \/ Quiet /\ \E u \in UserIdInputs, k \in PointsInputs, f \in ForUnder18Inputs :
                   RedeemCheck(u, k, f)
    \/ \E payload \in BagToSet(reqs) : RedeemAppend(payload)
SpecSeq == Init /\ [][NextSeq]_vars

\* Requests are served by a pool of worker threads: any step of any request may
\* follow any other.  No handler reads the fields of a user document (only
\* whether find_one returns one), so sign-ups are drawn from the under-age
\* payloads alone here; SpecSeq draws them all.
MinorInputs == {payload \in CreateUserInputs : payload.age \in MinAge..(AdultAge - 1)}
Next ==
    \/ SeedChallenges
    \/ \E payload \in MinorInputs : CreateUser(payload)
    \/ \E u \in UserIdInputs, c \in ChallengeIdInputs : SubmitChallenge(u, c)
    \/ \E u \in UserIdInputs : GetWallet(u)
    \/ \E u \in UserIdInputs, k \in PointsInputs, f \in ForUnder18Inputs :
           RedeemCheck(u, k, f)
    \/ \E payload \in BagToSet(reqs) : RedeemAppend(payload)
Spec == Init /\ [][Next]_vars

\* ---------------------------------------------------------------- claims
UserIds == 1..MaxUsers
EarnedNow(u) == Earned(submission, u)
RedeemedNow(u) == Redeemed(wallettransaction, u)
WalletNow(u) == WalletPoints(submission, wallettransaction, u)
RedeemAnswered == resp.op = "redeem" /\ resp.status # NoError[1]
RedeemRejected == RedeemAnswered /\ resp.status # 200

\* C1: with one request at a time, a redeem_points(u, k) with k <= the balance
\* get_wallet computes and k >= 10000 passes both checks without touching the
\* store, and its insert then adds exactly one 'redeem' transaction of k points
\* for u, answers 200, and leaves get_wallet's balance for u lower by exactly k.
C1_RedeemWithinBalanceSucceeds ==
    [][LET u == resp'.user_id
           k == resp'.req_points
           bal == WalletNow(u)
       IN  (resp'.op = "redeem" /\ dbConfigured /\ IsObjectId(u)
                /\ k >= MinWithdrawalPoints /\ k <= bal)
           => IF Quiet
              THEN /\ <<resp'.status, resp'.detail>> = NoError
                   /\ BagCardinality(reqs') = 1
                   /\ \A p \in BagToSet(reqs') : p.user_id = u /\ p.points = k
                   /\ store' = store
              ELSE /\ resp'.status = 200
                   /\ reqs' = EmptyBag
                   /\ \E t \in BagToSet(wallettransaction') :
                          /\ t.user_id = u /\ t.type = "redeem" /\ t.points = k
                          /\ wallettransaction' = wallettransaction (+) SetToBag({t})
                   /\ UNCHANGED <<user, challenge, submission>>
                   /\ WalletPoints(submission', wallettransaction', u) = bal - k
      ]_vars
\* the 12000 point scenario: redeem(10000) answered 200, 2000 points left
C1_Witness ==
    /\ resp.op = "redeem" /\ resp.status = 200 /\ resp.req_points = 10000
    /\ EarnedNow(resp.user_id) = 12000
    /\ WalletNow(resp.user_id) = 2000

\* C2: an account is overdrawn only by two or more redemptions of which each
\* alone is covered by the user's earnings: each passed its check on a balance
\* read before the other was recorded.  The overdrawn state itself is C2_Witness.
C2_OverdrawnOnlyByRacingRedeems ==
    \A u \in UserIds :
        RedeemedNow(u) > EarnedNow(u)
        => /\ BagCardinality(RedeemsOf(wallettransaction, u)) >= 2
           /\ \A t \in BagToSet(RedeemsOf(wallettransaction, u)) : t.points <= EarnedNow(u)
\* both requests answered 200 and the user's redeemed total exceeds the earned
C2_Witness ==
    /\ resp.op = "redeem" /\ resp.status = 200
    /\ IsObjectId(resp.user_id)
    /\ RedeemedNow(resp.user_id) > EarnedNow(resp.user_id)
    /\ reqs = EmptyBag

\* C3: a step that answers a redeem_points request with an error (500 store
\* not configured, 400 invalid user id, 400 invalid amount, 400 below minimum)
\* changes no collection and leaves no redemption waiting to be recorded.
C3_RejectedRedeemWritesNothing ==
    [][(resp'.op = "redeem" /\ resp'.status \notin {NoError[1], 200})
           => (store' = store /\ reqs' = reqs)]_vars
\* a request is refused while another one is between its check and its insert
C3_Witness ==
    /\ RedeemRejected
    /\ reqs # EmptyBag
    /\ wallettransaction # EmptyBag

\* C4: no redeem_points request for fewer than 10000 points passes the checks
\* or is recorded, whatever the balance: every answer to one is an error.
C4_BelowMinimumAlwaysFails ==
    /\ (resp.op = "redeem" /\ resp.req_points < MinWithdrawalPoints)
           => resp.status \in {400, 500}
    /\ \A p \in BagToSet(reqs) : p.points >= MinWithdrawalPoints
    /\ \A t \in BagToSet(wallettransaction) : t.points >= MinWithdrawalPoints
\* balance = 5000, k = 5000: refused for the minimum
C4_Witness ==
    /\ RedeemRejected /\ resp.detail = MinimumError
    /\ resp.req_points = 5000
    /\ WalletNow(resp.user_id) = 5000

\* C5: a redeem_points request for more points than get_wallet computes for
\* the user when the request is checked is answered 400 and not let through.
C5_AboveBalanceAlwaysFails ==
    (resp.op = "redeem" /\ resp.status # 200 /\ dbConfigured /\ IsObjectId(resp.user_id)
         /\ resp.req_points > WalletNow(resp.user_id))
    => resp.status = 400
\* 10000 points meet the minimum and exceed a positive balance
C5_Witness ==
    /\ RedeemRejected
    /\ resp.req_points = 10000
    /\ WalletNow(resp.user_id) > 0
    /\ WalletNow(resp.user_id) < 10000

ErrorOf(r) == <<r.status, r.detail>>
ExceedsBalance ==
    /\ RedeemRejected /\ resp.points # NoWallet
    /\ resp.req_points > 0 /\ resp.req_points > resp.points
\* C6 as claimed: the error for an amount above the balance is the error of an
\* amount below the minimum and differs from the error of a non-positive amount.
C6_Original ==
    ExceedsBalance
    => /\ ErrorOf(resp) = RedeemError(MinWithdrawalPoints - 1, MinWithdrawalPoints - 1)
       /\ ErrorOf(resp) # RedeemError(0, resp.points)
\* C6 amended: the error for an amount above the balance is the error of a
\* non-positive amount (400 "Invalid points amount"); it differs from the error
\* of an amount below the minimum and is never the not-found status 404.
C6_Amended ==
    ExceedsBalance
    => /\ ErrorOf(resp) = RedeemError(0, resp.points)
       /\ ErrorOf(resp) # RedeemError(MinWithdrawalPoints - 1, MinWithdrawalPoints - 1)
       /\ resp.status # 404
\* 5000 points above a balance of 1000: refused as an invalid amount
C6_Witness ==
    /\ ExceedsBalance
    /\ resp.req_points = 5000 /\ resp.points = 1000
    /\ resp.detail = InvalidAmountError

\* C7: every balance get_wallet returns is >= 0, and it is 0 with status 200
\* for a user whose redeemed points exceed the earned ones.
C7_BalanceNeverNegative ==
    /\ resp.points # NoWallet => resp.points >= 0
    /\ (resp.op = "wallet" /\ resp.status = 200
            /\ RedeemedNow(resp.user_id) > EarnedNow(resp.user_id))
           => resp.points = 0
    /\ \A u \in UserIds : WalletNow(u) >= 0
\* GET /wallet of an overdrawn user answers 200 with 0 points
C7_Witness ==
    /\ resp.op = "wallet" /\ resp.status = 200 /\ resp.points = 0
    /\ RedeemedNow(resp.user_id) > EarnedNow(resp.user_id)

\* C8: for a user without redemptions get_wallet returns the total of the
\* points_awarded that the user's POST /submit calls returned (0 without
\* any), whatever other users submitted.
C8_BalanceIsSumOfAwards ==
    (resp.op = "wallet" /\ resp.status = 200
         /\ RedeemsOf(wallettransaction, resp.user_id) = EmptyBag)
    => resp.points = awarded[resp.user_id]
\* two submissions of the first user, another user's submission beside them
C8_Witness ==
    /\ resp.op = "wallet" /\ resp.status = 200
    /\ resp.user_id = 1 /\ resp.points = 2000
    /\ EarnedNow(2) > 0

\* C9: every stored user under 18 has a parent email; create_user for an age
\* under 18 without parent email answers an error and inserts nothing; for a
\* valid age under 18 with a parent email it inserts exactly that one user.
C9_MinorsHaveParentEmail ==
    [][/\ \A i \in 1..Len(user') :
              user'[i].age < AdultAge => user'[i].parent_email # None
       /\ \A p \in CreateUserInputs :
              CreateUser(p)
              => /\ (p.age < AdultAge /\ p.parent_email = None)
                        => (user' = user /\ resp'.status # 200)
                 /\ (p.age \in MinAge..(AdultAge - 1) /\ p.parent_email # None
                         /\ dbConfigured)
                        => (user' = Append(user, p) /\ resp'.status = 200)
      ]_vars
\* a minor without parent email is refused after one with parent email signed up
C9_Witness ==
    /\ resp.op = "create_user" /\ resp.status = 400
    /\ \E i \in 1..Len(user) : user[i].age < AdultAge /\ user[i].parent_email = ParentEmail

\* C10: with one request at a time no user's redeemed points exceed the
\* earned ones, so max(0, earned - redeemed) is earned - redeemed.
C10_NeverOverdrawnSequentially ==
    \A u \in UserIds :
        /\ RedeemedNow(u) <= EarnedNow(u)
        /\ WalletNow(u) = EarnedNow(u) - RedeemedNow(u)
\* the whole balance was redeemed and the next redemption is refused
C10_Witness ==
    /\ RedeemRejected /\ resp.req_points = 10000
    /\ IsObjectId(resp.user_id)
    /\ RedeemedNow(resp.user_id) = 10000
    /\ EarnedNow(resp.user_id) = 10000
====
